---- MODULE Spec2Model ----
(***************************************************************************)
(* Model of the travel agent's tool-calling loop (travel_agent/core).      *)
(*                                                                         *)
(* A text is a sequence of one-character strings, so that the regular      *)
(* expressions and the slices of the parser are computed position by       *)
(* position, as Python computes them.  A code point outside ASCII is one   *)
(* element written "U+XXXX".  Python's None is the empty sequence None and *)
(* a present value x is the one-element sequence Some(x).                  *)
(***************************************************************************)
EXTENDS Integers, Sequences, FiniteSets, TLC

\* ------------------------------------------------------------------ text

None == <<>>
Some(x) == <<x>>
IsSome(o) == Len(o) = 1
Val(o) == o[1]

\* Op(v).  TLC binds x to the value of v, so that v is computed once however
\* often Op uses its argument.
Eval(Op(_), v) == CHOOSE r \in {Op(x) : x \in {v}} : TRUE

\* \s of Python's re and the characters str.strip() removes.
WhiteSpace == {" ", "\n", "\t", "\r"}

\* \w of Python's re.
WordChars ==
    {"a", "b", "c", "d", "e", "f", "g", "h", "i", "j", "k", "l", "m", "n", "o", "p", "q", "r",
     "s", "t", "u", "v", "w", "x", "y", "z",
     "A", "B", "C", "D", "E", "F", "G", "H", "I", "J", "K", "L", "M", "N", "O", "P", "Q", "R",
     "S", "T", "U", "V", "W", "X", "Y", "Z",
     "0", "1", "2", "3", "4", "5", "6", "7", "8", "9", "_"}

\* p occurs in s at position i (1-based).
MatchAt(p, s, i) ==
    /\ i >= 1
    /\ i + Len(p) - 1 <= Len(s)
    /\ \A k \in 1..Len(p) : s[i + k - 1] = p[k]

\* str.startswith
StartsWith(s, p) == MatchAt(p, s, 1)

\* The first position >= from where p occurs in s, 0 when there is none.
Find(p, s, from) ==
    Eval(LAMBDA hits : IF hits = {} THEN 0
                       ELSE CHOOSE i \in hits : \A j \in hits : i <= j,
         {i \in from..(Len(s) - Len(p) + 1) : MatchAt(p, s, i)})

\* p in s
Contains(s, p) == Find(p, s, 1) # 0

\* The position after a greedy \s* that starts at i.
RECURSIVE SkipSpace(_, _)
SkipSpace(s, i) ==
    IF i <= Len(s) /\ s[i] \in WhiteSpace THEN SkipSpace(s, i + 1) ELSE i

\* The last position <= i of s that holds no white space, 0 when there is none.
RECURSIVE SkipSpaceBack(_, _)
SkipSpaceBack(s, i) ==
    IF i >= 1 /\ s[i] \in WhiteSpace THEN SkipSpaceBack(s, i - 1) ELSE i

\* s[from..to] without the white space at its two ends.
StripSlice(s, from, to) ==
    Eval(LAMBDA a : IF a > to THEN <<>>
                    ELSE SubSeq(s, a, SkipSpaceBack(s, to)),
         SkipSpace(s, from))

\* str.strip()
Strip(s) == StripSlice(s, 1, Len(s))

\* "sep".join(parts)
RECURSIVE Join(_, _)
Join(sep, parts) ==
    IF Len(parts) = 0 THEN <<>>
    ELSE IF Len(parts) = 1 THEN parts[1]
    ELSE parts[1] \o sep \o Join(sep, Tail(parts))

\* ------------------------------------------------------------ literals

LblThought ==
    <<"T", "h", "o", "u", "g", "h", "t", ":">>
LblAction ==
    <<"A", "c", "t", "i", "o", "n", ":">>
LblObservation ==
    <<"O", "b", "s", "e", "r", "v", "a", "t", "i", "o", "n", ":">>
FinishToken ==
    <<"f", "i", "n", "i", "s", "h">>
AnswerKey ==
    <<"a", "n", "s", "w", "e", "r">>
CityKey ==
    <<"c", "i", "t", "y">>
WeatherKey ==
    <<"w", "e", "a", "t", "h", "e", "r">>
GetWeatherName ==
    <<"g", "e", "t", "_", "w", "e", "a", "t", "h", "e", "r">>
GetAttractionName ==
    <<"g", "e", "t", "_", "a", "t", "t", "r", "a", "c", "t", "i", "o", "n">>
UserInputPrefix ==
    <<"u", "s", "e", "r", " ", "i", "n", "p", "u", "t", ":", " ">>
ObservationPrefix ==
    <<"O", "b", "s", "e", "r", "v", "a", "t", "i", "o", "n", ":", " ">>
UndefinedToolPrefix ==
    <<"E", "r", "r", "o", "r", ":", " ", "t", "o", "o", "l", " ", "u", "n", "d", "e", "f", "i",
      "n", "e", "d", " ", "'">>
TaskFinished ==
    <<"T", "a", "s", "k", " ", "F", "i", "n", "i", "s", "h", "e", "d">>
MaxIterationMessage ==
    <<"E", "r", "r", "o", "r", ":", "R", "e", "a", "c", "h", " ", "M", "a", "x", " ", "I", "t",
      "e", "r", "a", "t", "i", "o", "n", " ", "T", "i", "m", "e", "s", ",", " ", "T", "a",
      "s", "k", " ", "n", "o", "t", " ", "f", "i", "n", "i", "s", "h", "e", "d", "!">>

\* ------------------------------------------------- core/parser.py

\* Mutant of SegmentStops: the lookahead is \s*$ alone, without the other label.
SegmentStops_end_only(text, stop, k) == k > Len(text)

\* The lookahead (?=\s*stop|\s*$) holds at the position k behind the white
\* space.
SegmentStops(text, stop, k) == k > Len(text) \/ MatchAt(stop, text, k)

\* The first position >= e where the lookahead holds: the end of the lazy (.*?).
RECURSIVE SegmentEnd(_, _, _)
SegmentEnd(text, stop, e) ==
    IF e > Len(text) THEN e
    ELSE IF Eval(LAMBDA k : SegmentStops(text, stop, k), SkipSpace(text, e)) THEN e
    ELSE SegmentEnd(text, stop, e + 1)

\* Mutant of Segment: a label that is not there gives the empty text, not None.
Segment_absent_is_empty(text, label, stop) ==
    Eval(LAMBDA i :
            IF i = 0 THEN Some(<<>>)
            ELSE Eval(LAMBDA p :
                         Eval(LAMBDA e : Some(StripSlice(text, p, e - 1)),
                              SegmentEnd(text, stop, p)),
                      SkipSpace(text, i + Len(label))),
         Find(label, text, 1))

\* One labelled segment of parse_llm_output:
\*   re.search(label \s* (.*?) (?= \s* stop | \s* $), text, re.DOTALL), group(1).strip()
\* The search starts at the first occurrence of the label; the greedy \s* runs
\* over the white space behind it; the lazy group ends at the first position
\* where the lookahead holds.
Segment(text, label, stop) ==
    Eval(LAMBDA i :
            IF i = 0 THEN None
            ELSE Eval(LAMBDA p :
                         Eval(LAMBDA e : Some(StripSlice(text, p, e - 1)),
                              SegmentEnd(text, stop, p)),
                      SkipSpace(text, i + Len(label))),
         Find(label, text, 1))

\* ResponseParser.parse_llm_output
parse_llm_output(llm_output) ==
    [thought |-> Segment(llm_output, LblThought, LblAction),
     action  |-> Segment(llm_output, LblAction, LblThought)]

\* (?:Thought:|Action:|Observation:) at position i
LabelAt(s, i) ==
    \/ MatchAt(LblThought, s, i)
    \/ MatchAt(LblAction, s, i)
    \/ MatchAt(LblObservation, s, i)

\* The last position k in e..upto where a line break and a label follow, the
\* position behind s when there is none.
RECURSIVE LastLabelBreak(_, _, _)
LastLabelBreak(s, e, upto) ==
    IF upto < e THEN Len(s) + 1
    ELSE IF s[upto] = "\n" /\ Eval(LAMBDA k : LabelAt(s, k), SkipSpace(s, upto + 1)) THEN upto
    ELSE LastLabelBreak(s, e, upto - 1)

\* Mutant of BlockEnd: the second (.*?) is greedy, so the block runs to the
\* last label that starts a line instead of the first.
BlockEnd_greedy(s, e) == LastLabelBreak(s, e, Len(s))

\* The first position >= e where (?=\n\s*(?:Thought:|Action:|Observation:)|\Z)
\* holds: the end of the second lazy (.*?).
RECURSIVE BlockEnd(_, _)
BlockEnd(s, e) ==
    IF e > Len(s) THEN e
    ELSE IF s[e] = "\n" /\ Eval(LAMBDA k : LabelAt(s, k), SkipSpace(s, e + 1)) THEN e
    ELSE BlockEnd(s, e + 1)

\* Mutant of truncate_multiple_actions: the comparison with the stripped
\* output is inverted.
truncate_multiple_actions_inverted_test(llm_output) ==
    Eval(LAMBDA i :
            Eval(LAMBDA j :
                    IF j = 0 THEN llm_output
                    ELSE Eval(LAMBDA truncated :
                                 IF truncated = Strip(llm_output) THEN truncated
                                 ELSE llm_output,
                              StripSlice(llm_output, i,
                                         BlockEnd(llm_output, j + Len(LblAction)) - 1)),
                 IF i = 0 THEN 0 ELSE Find(LblAction, llm_output, i + Len(LblThought))),
         Find(LblThought, llm_output, 1))

\* ResponseParser.truncate_multiple_actions:
\*   re.search((Thought:.*?Action:.*?)(?=\n\s*(?:Thought:|Action:|Observation:)|\Z))
\* The block starts at the first Thought label and runs over the first Action
\* label behind it.
truncate_multiple_actions(llm_output) ==
    Eval(LAMBDA i :
            Eval(LAMBDA j :
                    IF j = 0 THEN llm_output
                    ELSE Eval(LAMBDA truncated :
                                 IF truncated # Strip(llm_output) THEN truncated
                                 ELSE llm_output,
                              StripSlice(llm_output, i,
                                         BlockEnd(llm_output, j + Len(LblAction)) - 1)),
                 IF i = 0 THEN 0 ELSE Find(LblAction, llm_output, i + Len(LblThought))),
         Find(LblThought, llm_output, 1))

\* The position behind the longest run of word characters of s that starts at i.
RECURSIVE WordEnd(_, _)
WordEnd(s, i) ==
    IF i <= Len(s) /\ s[i] \in WordChars THEN WordEnd(s, i + 1) ELSE i

\* The last ")" of s at or before position k and not before from, 0 when
\* there is none.
RECURSIVE LastCloser(_, _, _)
LastCloser(s, from, k) ==
    IF k < from THEN 0
    ELSE IF s[k] = ")" THEN k
    ELSE LastCloser(s, from, k - 1)

\* The last position of the line of s that position from is on.
LineEnd(s, from) ==
    Eval(LAMBDA nl : IF nl = 0 THEN Len(s) ELSE nl - 1, Find(<<"\n">>, s, from))

\* re.match(r"(\w+)\((.*)\)", action_str): the match, or None.  "." stops at a
\* line break; the greedy (.*) gives back to the last ")" of the first line.
OuterMatch(action_str) ==
    Eval(LAMBDA n :
            IF n = 1 \/ ~MatchAt(<<"(">>, action_str, n) THEN None
            ELSE Eval(LAMBDA close :
                         IF close = 0 THEN None
                         ELSE Some([tool_name |-> SubSeq(action_str, 1, n - 1),
                                    args_str  |-> SubSeq(action_str, n + 1, close - 1)]),
                      LastCloser(action_str, n + 1, LineEnd(action_str, n + 1))),
         WordEnd(action_str, 1))

\* One match of (\w+)="([^"]*)" starting exactly at i, or None.
PairAt(s, i) ==
    Eval(LAMBDA n :
            IF n = i \/ ~MatchAt(<<"=", "\"">>, s, n) THEN None
            ELSE Eval(LAMBDA close :
                         IF close = 0 THEN None
                         ELSE Some([key |-> SubSeq(s, i, n - 1),
                                    value |-> SubSeq(s, n + 2, close - 1),
                                    next |-> close + 1]),
                      Find(<<"\"">>, s, n + 2)),
         WordEnd(s, i))

\* kwargs[key] = value
SetItem(kwargs, key, value) ==
    [k \in (DOMAIN kwargs) \cup {key} |-> IF k = key THEN value ELSE kwargs[k]]

EmptyDict == [k \in {} |-> <<>>]

\* re.findall(r'(\w+)="([^"]*)"', args_str) folded into kwargs, left to right.
RECURSIVE FindAllPairs(_, _, _)
FindAllPairs(s, i, kwargs) ==
    IF i > Len(s) THEN kwargs
    ELSE Eval(LAMBDA m :
                 IF IsSome(m)
                 THEN FindAllPairs(s, Val(m).next,
                                   SetItem(kwargs, Val(m).key, Val(m).value))
                 ELSE FindAllPairs(s, i + 1, kwargs),
              PairAt(s, i))

\* ResponseParser.parse_action: [raised, tool_name, kwargs].  raised stands
\* for the ValueError("invalid action format: ...").
parse_action(action_str) ==
    IF StartsWith(action_str, FinishToken)
    THEN [raised |-> FALSE, tool_name |-> FinishToken,
          kwargs |-> SetItem(EmptyDict, AnswerKey,
                             SubSeq(action_str, 8, Len(action_str) - 1))]
    ELSE Eval(LAMBDA m :
                 IF ~IsSome(m)
                 THEN [raised |-> TRUE, tool_name |-> <<>>, kwargs |-> EmptyDict]
                 ELSE [raised |-> FALSE, tool_name |-> Val(m).tool_name,
                       kwargs |-> FindAllPairs(Val(m).args_str, 1, EmptyDict)],
              OuterMatch(action_str))

\* ---------------------------------------------- tools and transport

CurrentWeatherText ==
    <<" ", "c", "u", "r", "r", "e", "n", "t", " ", "w", "e", "a", "t", "h", "e", "r", ":", " ">>
WeatherReportTail ==
    <<"\n", "U+1F321", "U+FE0F", " ", "t", "e", "m", "p", "e", "r", "a", "t", "u", "r", "e",
      ":", " ", "2", "0", "U+00B0", "C", " ", "(", "f", "e", "e", "l", "s", "1", "9",
      "U+00B0", "C", ")", "\n", "U+1F4A7", " ", "H", "u", "m", "i", "d", "i", "t", "y", ":",
      " ", "5", "0", "%", "\n", "U+1F32C", "U+FE0F", " ", "C", "o", "n", "d", "i", "t", "i",
      "o", "n", ":", " ", "1", "0", " ", "k", "m", "/", "h">>
SearchFailedPrefix ==
    <<"s", "e", "a", "r", "c", "h", " ", "f", "a", "i", "l", "e", "d", ":", " ">>
ToolErrorPrefix ==
    <<"t", "o", "o", "l", " ", "e", "x", "e", "c", "u", "t", "e", "d", " ", "w", "i", "t", "h",
      " ", "e", "r", "r", "o", "r", ":", " ">>
NoneNotIterable ==
    <<"a", "r", "g", "u", "m", "e", "n", "t", " ", "o", "f", " ", "t", "y", "p", "e", " ", "'",
      "N", "o", "n", "e", "T", "y", "p", "e", "'", " ", "i", "s", " ", "n", "o", "t", " ",
      "i", "t", "e", "r", "a", "b", "l", "e">>
Sunny ==
    <<"S", "u", "n", "n", "y">>
Timeout ==
    <<"t", "i", "m", "e", "d", " ", "o", "u", "t">>

\* What the weather service and the search service answer.
WeatherDescriptions == {Sunny}
SearchErrors == {Timeout}

\* The keyword parameters of a tool's execute; none has a default.
ToolParams(tool) ==
    IF tool = "WeatherTool" THEN {CityKey} ELSE {CityKey, WeatherKey}

\* Python binds **kwargs to execute's parameters before the body runs: a
\* missing or an unexpected keyword is a TypeError at the call.
BindsTo(tool, kwargs) == DOMAIN kwargs = ToolParams(tool)

Returned(text) == [raised |-> FALSE, value |-> text]
\* The value of a raised outcome is the one-element sequence of the exception type.
Raised(type) == [raised |-> TRUE, value |-> <<type>>]

\* WeatherTool.execute: the report, when the request and the decoding succeed.
\* An exception inside the try makes Python evaluate
\* "except httpx.exceptions.RequestException", a name httpx does not have, so
\* an AttributeError leaves execute.
WeatherToolExecute(kwargs) ==
    {Returned(kwargs[CityKey] \o CurrentWeatherText \o d \o WeatherReportTail) :
        d \in WeatherDescriptions}
    \cup {Raised("AttributeError")}

\* TabilyClientWrapper.search: {"error": str(e)} on a failure, and None
\* otherwise (the result of the search is not returned).
TavilySearch == {Some(e) : e \in SearchErrors} \cup {None}

\* AttractionTool.execute: the whole body is inside try/except Exception.
AttractionToolExecute(kwargs) ==
    {IF IsSome(response)
     THEN Returned(SearchFailedPrefix \o Val(response))
     ELSE Returned(ToolErrorPrefix \o NoneNotIterable) : response \in TavilySearch}

\* self.tools[tool_name](**kwargs): the outcomes of the call.
ToolOutcomes(tool, kwargs) ==
    IF ~BindsTo(tool, kwargs) THEN {Raised("TypeError")}
    ELSE IF tool = "WeatherTool" THEN WeatherToolExecute(kwargs)
    ELSE AttractionToolExecute(kwargs)

\* The tool dictionary main() builds, and the same with one more entry under
\* the name finish.
MainTools == (GetWeatherName :> "WeatherTool") @@ (GetAttractionName :> "AttractionTool")
ToolsWithFinish == MainTools @@ (FinishToken :> "WeatherTool")
Registries == {MainTools, ToolsWithFinish}

\* A transport that takes generate's four keywords and returns text, and the
\* repository's OpenaiClientWrapper, whose generate(prompt, system_prompt)
\* takes neither temperature nor max_tokens.
Transports == {"Conforming", "OpenaiClientWrapper"}

OutFinish ==
    <<"T", "h", "o", "u", "g", "h", "t", ":", " ", "d", "o", "n", "e", "\n", "A", "c", "t",
      "i", "o", "n", ":", " ", "f", "i", "n", "i", "s", "h", "(", "a", "n", "s", "w", "e",
      "r", "=", "\"", "A", "\"", ")">>
OutWeather ==
    <<"T", "h", "o", "u", "g", "h", "t", ":", " ", "w", "\n", "A", "c", "t", "i", "o", "n",
      ":", " ", "g", "e", "t", "_", "w", "e", "a", "t", "h", "e", "r", "(", "c", "i", "t",
      "y", "=", "\"", "O", "s", "l", "o", "\"", ")">>
OutAttraction ==
    <<"T", "h", "o", "u", "g", "h", "t", ":", " ", "a", "\n", "A", "c", "t", "i", "o", "n",
      ":", " ", "g", "e", "t", "_", "a", "t", "t", "r", "a", "c", "t", "i", "o", "n", "(",
      "c", "i", "t", "y", "=", "\"", "O", "s", "l", "o", "\"", ",", " ", "w", "e", "a", "t",
      "h", "e", "r", "=", "\"", "S", "u", "n", "n", "y", "\"", ")">>
OutBadArgs ==
    <<"T", "h", "o", "u", "g", "h", "t", ":", " ", "w", "\n", "A", "c", "t", "i", "o", "n",
      ":", " ", "g", "e", "t", "_", "w", "e", "a", "t", "h", "e", "r", "(", "t", "o", "w",
      "n", "=", "\"", "O", "s", "l", "o", "\"", ")">>
OutUndefined ==
    <<"T", "h", "o", "u", "g", "h", "t", ":", " ", "b", "\n", "A", "c", "t", "i", "o", "n",
      ":", " ", "b", "o", "o", "k", "(", "c", "i", "t", "y", "=", "\"", "O", "s", "l", "o",
      "\"", ")">>
OutMalformed ==
    <<"T", "h", "o", "u", "g", "h", "t", ":", " ", "m", "\n", "A", "c", "t", "i", "o", "n",
      ":", " ", "n", "o", "t", " ", "v", "a", "l", "i", "d", " ", "t", "e", "x", "t">>
OutNoAction ==
    <<"T", "h", "o", "u", "g", "h", "t", ":", " ", "j", "u", "s", "t", " ", "t", "h", "i", "n",
      "k", "i", "n", "g">>
OutEmptyAction ==
    <<"T", "h", "o", "u", "g", "h", "t", ":", " ", "e", "\n", "A", "c", "t", "i", "o", "n",
      ":", " ", "\n">>
OutTwoPairs ==
    <<"T", "h", "o", "u", "g", "h", "t", ":", " ", "a", "\n", "A", "c", "t", "i", "o", "n",
      ":", " ", "b", "o", "o", "k", "(", ")", "\n", "T", "h", "o", "u", "g", "h", "t", ":",
      " ", "b", "\n", "A", "c", "t", "i", "o", "n", ":", " ", "f", "i", "n", "i", "s", "h",
      "(", "a", "n", "s", "w", "e", "r", "=", "\"", "B", "\"", ")">>
OutFinishTrip ==
    <<"A", "c", "t", "i", "o", "n", ":", " ", "f", "i", "n", "i", "s", "h", "_", "t", "r", "i",
      "p", "(", "c", "i", "t", "y", "=", "\"", "O", "s", "l", "o", "\"", ")">>
OutFinishBare ==
    <<"A", "c", "t", "i", "o", "n", ":", " ", "f", "i", "n", "i", "s", "h">>
OutTransportError ==
    <<"E", "r", "r", "o", "r", " ", "w", "h", "e", "n", " ", "c", "a", "l", "l", "i", "n", "g",
      " ", "L", "L", "M", " ", "A", "P", "I">>
InputOslo ==
    <<"O", "s", "l", "o", " ", "t", "r", "i", "p">>
InputHi ==
    <<"h", "i">>

\* The texts a transport returns.
LLMOutputs ==
    {OutFinish, OutWeather, OutAttraction, OutBadArgs, OutUndefined, OutMalformed,
     OutNoAction, OutEmptyAction, OutTwoPairs, OutFinishTrip, OutFinishBare,
     OutTransportError}

UserInputs == {InputOslo, InputHi}

\* The largest config.max_iterations of the model.
MaxIterations == 3

\* ------------------------------------------------- core/agent.py

VARIABLES
    pc,                    \* where run is: idle, loop, generate, tool, done, raised
    max_iterations,        \* self.config.max_iterations
    tools,                 \* self.tools: name -> tool
    llm_client,            \* self.llm_client
    conversation_history,  \* self.conversation_history
    iteration,             \* the loop variable of run
    thought,               \* run's local thought
    action_str,            \* run's local action_str
    pending,               \* the tool call in flight: Some([tool_name, kwargs])
    result,                \* what run returned: Some([kind, value])
    exc,                   \* the exception that left run: Some([type, origin])
    prompts,               \* the prompt of every generate call of this run
    llm_outputs,           \* the text every generate call of this run returned
    tool_log,              \* every call of a registry entry in this run
    current_input,         \* user_input of the latest call of run: Some(text), or None
    previous_end,          \* how the call of run before the latest one ended
    pc2,                   \* a second call of run on the same agent: where it is
    iteration2,            \* its loop variable
    pending2,              \* its tool call in flight
    result2,               \* what it returned
    exc2,                  \* the exception that left it
    prompts2,              \* the prompt of each of its generate calls
    llm_outputs2,          \* the text each of its generate calls returned
    current_input2,        \* its user_input
    parts,                 \* the pieces of a text given to the parser
    applied                \* the parser function applied to it: Some([op, input, value])

\* The locals and the trace of the second call of run.
other_call == <<pc2, iteration2, pending2, result2, exc2, prompts2, llm_outputs2,
                current_input2>>

\* A text under construction and what a parser function made of it.
parser_state == <<parts, applied>>

\* The agent and the locals and the trace of the first call of run.
agent_state == <<pc, max_iterations, tools, llm_client, conversation_history, iteration,
                 thought, action_str, pending, result, exc, prompts, llm_outputs, tool_log,
                 current_input, previous_end>>

vars == <<agent_state, other_call, parser_state>>

Init ==
    /\ pc = "idle"
    /\ max_iterations \in 0..MaxIterations
    /\ tools \in Registries
    /\ llm_client \in Transports
    /\ conversation_history = <<>>
    /\ iteration = 0
    /\ thought = None
    /\ action_str = None
    /\ pending = None
    /\ result = None
    /\ exc = None
    /\ prompts = <<>>
    /\ llm_outputs = <<>>
    /\ tool_log = <<>>
    /\ current_input = None
    /\ previous_end = "none"
    /\ pc2 = "idle"
    /\ iteration2 = 0
    /\ pending2 = None
    /\ result2 = None
    /\ exc2 = None
    /\ prompts2 = <<>>
    /\ llm_outputs2 = <<>>
    /\ current_input2 = None
    /\ parts = <<>>
    /\ applied = None

\* Mutant of get_full_prompt: only the user's entry is sent.
get_full_prompt_first_only(history) == history[1]

\* Mutant of get_full_prompt: a window of the first entry and the latest two.
get_full_prompt_window(history) ==
    Join(<<"\n">>, IF Len(history) > 3
                   THEN <<history[1]>> \o SubSeq(history, Len(history) - 1, Len(history))
                   ELSE history)

\* Mutant of get_full_prompt: the latest entry is left out.
get_full_prompt_without_latest(history) ==
    Join(<<"\n">>, SubSeq(history, 1, Len(history) - 1))

\* TravelAgent.get_full_prompt
get_full_prompt(history) == Join(<<"\n">>, history)

\* Mutant of LoopContinues: the range is one too long.
LoopContinues_off_by_one(it, max) == it <= max

\* for iteration in range(self.config.max_iterations)
LoopContinues(it, max) == it < max

\* Mutant of ObservationStr: the observation is appended without the marker.
ObservationStr_no_marker(observation) == observation

\* f"Observation: {observation}"
ObservationStr(observation) == ObservationPrefix \o observation

\* f"Error: tool undefined '{tool_name}'"
UndefinedToolError(tool_name) == UndefinedToolPrefix \o tool_name \o <<"'">>

Finished(answer) == [kind |-> "Finished", value |-> answer]
Failed(reason) == [kind |-> "Failed", value |-> reason]

\* kwargs.get(key, default)
Get(kwargs, key, default) == IF key \in DOMAIN kwargs THEN kwargs[key] ELSE default

\* Mutant of Decide: the registry is looked up before the finish test.
Decide_lookup_first(action, registry) ==
    IF ~IsSome(action) \/ Val(action) = <<>> THEN "break"
    ELSE IF /\ ~parse_action(Val(action)).raised
            /\ parse_action(Val(action)).tool_name \in DOMAIN registry THEN "call"
    ELSE IF StartsWith(Val(action), FinishToken) THEN "finish"
    ELSE IF parse_action(Val(action)).raised THEN "raise"
    ELSE "undefined"

\* Mutant of Decide: a missing action is not tested for, and the first use of
\* it raises.
Decide_no_none_test(action, registry) ==
    IF ~IsSome(action) \/ Val(action) = <<>> THEN "raise"
    ELSE IF StartsWith(Val(action), FinishToken) THEN "finish"
    ELSE IF parse_action(Val(action)).raised THEN "raise"
    ELSE IF parse_action(Val(action)).tool_name \in DOMAIN registry THEN "call"
    ELSE "undefined"

\* Mutant of Decide: a malformed action is answered with an observation
\* instead of letting the error out.
Decide_malformed_absorbed(action, registry) ==
    IF ~IsSome(action) \/ Val(action) = <<>> THEN "break"
    ELSE IF StartsWith(Val(action), FinishToken) THEN "finish"
    ELSE IF parse_action(Val(action)).raised THEN "undefined"
    ELSE IF parse_action(Val(action)).tool_name \in DOMAIN registry THEN "call"
    ELSE "undefined"

\* Mutant of Decide: the registry is indexed without the membership test, so
\* an unknown name raises.
Decide_no_membership_test(action, registry) ==
    IF ~IsSome(action) \/ Val(action) = <<>> THEN "break"
    ELSE IF StartsWith(Val(action), FinishToken) THEN "finish"
    ELSE IF parse_action(Val(action)).raised THEN "raise"
    ELSE IF parse_action(Val(action)).tool_name \in DOMAIN registry THEN "call"
    ELSE "raise"

\* Mutant of Decide: only a missing action segment ends the run; an empty one
\* is given to parse_action.
Decide_none_only(action, registry) ==
    IF ~IsSome(action) THEN "break"
    ELSE IF StartsWith(Val(action), FinishToken) THEN "finish"
    ELSE IF parse_action(Val(action)).raised THEN "raise"
    ELSE IF parse_action(Val(action)).tool_name \in DOMAIN registry THEN "call"
    ELSE "undefined"

\* Mutant of Decide: an action is finish only when no registry entry has the
\* name in front of its parenthesis.
Decide_registry_before_prefix(action, registry) ==
    IF ~IsSome(action) \/ Val(action) = <<>> THEN "break"
    ELSE IF /\ IsSome(OuterMatch(Val(action)))
            /\ Val(OuterMatch(Val(action))).tool_name \in DOMAIN registry THEN "call"
    ELSE IF StartsWith(Val(action), FinishToken) THEN "finish"
    ELSE IF parse_action(Val(action)).raised THEN "raise"
    ELSE "undefined"

\* What one iteration does with the parsed action: "break" (no action),
\* "finish", "raise" (parse_action's ValueError), "call" (a registry entry) or
\* "undefined".
Decide(action, registry) ==
    IF ~IsSome(action) \/ Val(action) = <<>> THEN "break"
    ELSE IF StartsWith(Val(action), FinishToken) THEN "finish"
    ELSE IF parse_action(Val(action)).raised THEN "raise"
    ELSE IF parse_action(Val(action)).tool_name \in DOMAIN registry THEN "call"
    ELSE "undefined"

\* Mutant of ReturnAfterLoop: no return statement behind the loop, so run
\* returns Python's None.
ReturnAfterLoop_missing == [kind |-> "None", value |-> <<>>]

\* The value of the return statement behind the loop, which a break reaches
\* as well as the end of the range.
ReturnAfterLoop == Failed(MaxIterationMessage)

\* Mutant of add_to_history: the entry is put in front.
add_to_history_front(history, content) == <<content>> \o history

\* TravelAgent.add_to_history
add_to_history(history, content) == Append(history, content)

\* Mutant of InitialHistory: run appends to the history it finds.
InitialHistory_keeps_old(user_input) ==
    Append(conversation_history, UserInputPrefix \o user_input)

\* Mutant of InitialHistory: a system entry is put in front of the user's.
InitialHistory_with_system_entry(user_input) ==
    <<UserInputPrefix, UserInputPrefix \o user_input>>

\* self.conversation_history = [f"user input: {user_input}"]
InitialHistory(user_input) == <<UserInputPrefix \o user_input>>

\* How the latest call of run ended: with a Finished or a Failed outcome or
\* with an exception; what was recorded before, when no call has ended since.
EndOfCall ==
    IF pc = "done" THEN Val(result).kind
    ELSE IF pc = "raised" THEN "raised"
    ELSE previous_end

\* No call of run is under way: the agent was just built or reset, or the
\* last call of run has returned or raised.
NotRunning == pc \in {"idle", "done", "raised"}

\* run, up to the first loop test: the history is reset to the user input.
\* The locals, the result and the logs are those of the new call.
Run(user_input) ==
    /\ NotRunning
    /\ conversation_history' = InitialHistory(user_input)
    /\ current_input' = Some(user_input)
    /\ previous_end' = EndOfCall
    /\ iteration' = 0
    /\ thought' = None
    /\ action_str' = None
    /\ pending' = None
    /\ result' = None
    /\ exc' = None
    /\ prompts' = <<>>
    /\ llm_outputs' = <<>>
    /\ tool_log' = <<>>
    /\ pc' = "loop"
    /\ UNCHANGED <<max_iterations, tools, llm_client>>
    /\ UNCHANGED <<other_call, parser_state>>

\* TravelAgent.reset, between two calls of run: the history is emptied, and
\* nothing of the last call is kept.
Reset ==
    /\ NotRunning
    /\ conversation_history' = <<>>
    /\ current_input' = None
    /\ previous_end' = EndOfCall
    /\ iteration' = 0
    /\ thought' = None
    /\ action_str' = None
    /\ pending' = None
    /\ result' = None
    /\ exc' = None
    /\ prompts' = <<>>
    /\ llm_outputs' = <<>>
    /\ tool_log' = <<>>
    /\ pc' = "idle"
    /\ UNCHANGED <<max_iterations, tools, llm_client>>
    /\ UNCHANGED <<other_call, parser_state>>

\* The loop test holds: the prompt is built and generate is called.
CallLLM ==
    /\ pc = "loop"
    /\ LoopContinues(iteration, max_iterations)
    /\ prompts' = Append(prompts, get_full_prompt(conversation_history))
    /\ pc' = "generate"
    /\ UNCHANGED <<max_iterations, tools, llm_client, current_input, previous_end,
                   conversation_history, iteration,
                   thought, action_str, pending, result, exc, llm_outputs, tool_log>>
    /\ UNCHANGED <<other_call, parser_state>>

\* The range is exhausted: run returns the message behind the loop.
LoopExhausted ==
    /\ pc = "loop"
    /\ ~LoopContinues(iteration, max_iterations)
    /\ result' = Some(ReturnAfterLoop)
    /\ pc' = "done"
    /\ UNCHANGED <<max_iterations, tools, llm_client, current_input, previous_end,
                   conversation_history, iteration,
                   thought, action_str, pending, exc, prompts, llm_outputs, tool_log>>
    /\ UNCHANGED <<other_call, parser_state>>

\* generate raises: the call of OpenaiClientWrapper.generate with temperature
\* and max_tokens is a TypeError, which run does not catch.
LLMRaises ==
    /\ pc = "generate"
    /\ llm_client = "OpenaiClientWrapper"
    /\ exc' = Some([type |-> "TypeError", origin |-> "generate"])
    /\ pc' = "raised"
    /\ UNCHANGED <<max_iterations, tools, llm_client, current_input, previous_end,
                   conversation_history, iteration,
                   thought, action_str, pending, result, prompts, llm_outputs, tool_log>>
    /\ UNCHANGED <<other_call, parser_state>>

\* Mutant of Iteration: the text is parsed as generate returned it, and only
\* the transcript gets the truncated text.
Iteration_parses_raw(text, registry) ==
    Eval(LAMBDA llm_output :
            Eval(LAMBDA step :
                    [llm_output |-> llm_output,
                     thought |-> step.thought,
                     action |-> step.action,
                     branch |-> Decide(step.action, registry),
                     call |-> IF IsSome(step.action) THEN parse_action(Val(step.action))
                              ELSE [raised |-> TRUE, tool_name |-> <<>>,
                                    kwargs |-> EmptyDict]],
                 parse_llm_output(text)),
         truncate_multiple_actions(text))

\* What run computes from the text generate returned, before its next
\* blocking call or its end: the truncated output, the parsed step, the
\* branch taken and, when there is an action, what parse_action makes of it.
Iteration(text, registry) ==
    Eval(LAMBDA llm_output :
            Eval(LAMBDA step :
                    [llm_output |-> llm_output,
                     thought |-> step.thought,
                     action |-> step.action,
                     branch |-> Decide(step.action, registry),
                     call |-> IF IsSome(step.action) THEN parse_action(Val(step.action))
                              ELSE [raised |-> TRUE, tool_name |-> <<>>,
                                    kwargs |-> EmptyDict]],
                 parse_llm_output(llm_output)),
         truncate_multiple_actions(text))

\* generate returns text: run truncates it, appends it, parses it and acts on
\* the action, up to the next blocking call or the end of run.
LLMReturns(text) ==
    /\ pc = "generate"
    /\ llm_client = "Conforming"
    /\ \E it \in {Iteration(text, tools)} :
       LET history == add_to_history(conversation_history, it.llm_output)
       IN  /\ llm_outputs' = Append(llm_outputs, text)
           /\ thought' = it.thought
           /\ action_str' = it.action
           /\ \/ /\ it.branch = "break"
                 /\ result' = Some(ReturnAfterLoop)
                 /\ pc' = "done"
                 /\ conversation_history' = history
                 /\ UNCHANGED <<iteration, pending, exc, tool_log>>
              \/ /\ it.branch = "finish"
                 /\ result' = Some(Finished(Get(it.call.kwargs, AnswerKey, TaskFinished)))
                 /\ pc' = "done"
                 /\ conversation_history' = history
                 /\ UNCHANGED <<iteration, pending, exc, tool_log>>
              \/ /\ it.branch = "raise"
                 /\ exc' = Some([type |-> "ValueError", origin |-> "parse_action"])
                 /\ pc' = "raised"
                 /\ conversation_history' = history
                 /\ UNCHANGED <<iteration, pending, result, tool_log>>
              \/ /\ it.branch = "call"
                 /\ pending' = Some([tool_name |-> it.call.tool_name,
                                     kwargs |-> it.call.kwargs])
                 /\ tool_log' = Append(tool_log, [tool_name |-> it.call.tool_name,
                                                  kwargs |-> it.call.kwargs,
                                                  iteration |-> iteration])
                 /\ pc' = "tool"
                 /\ conversation_history' = history
                 /\ UNCHANGED <<iteration, result, exc>>
              \/ /\ it.branch = "undefined"
                 /\ conversation_history' =
                        add_to_history(history,
                                       ObservationStr(UndefinedToolError(it.call.tool_name)))
                 /\ iteration' = iteration + 1
                 /\ pc' = "loop"
                 /\ UNCHANGED <<pending, result, exc, tool_log>>
    /\ UNCHANGED <<max_iterations, tools, llm_client, current_input, previous_end,
                   prompts>>
    /\ UNCHANGED <<other_call, parser_state>>

\* Mutant of ToolReturns: the loop goes on while the tool call is still in
\* flight.
ToolReturns_keeps_pending ==
    /\ pc = "tool"
    /\ \E o \in ToolOutcomes(tools[Val(pending).tool_name], Val(pending).kwargs) :
        /\ ~o.raised
        /\ conversation_history' =
               add_to_history(conversation_history, ObservationStr(o.value))
    /\ iteration' = iteration + 1
    /\ pc' = "loop"
    /\ UNCHANGED <<max_iterations, tools, llm_client, current_input, previous_end,
                   thought, action_str, pending, result, exc,
                   prompts, llm_outputs, tool_log>>
    /\ UNCHANGED <<other_call, parser_state>>

\* The tool returns: the observation is appended and the loop goes on.
ToolReturns ==
    /\ pc = "tool"
    /\ \E o \in ToolOutcomes(tools[Val(pending).tool_name], Val(pending).kwargs) :
        /\ ~o.raised
        /\ conversation_history' =
               add_to_history(conversation_history, ObservationStr(o.value))
    /\ iteration' = iteration + 1
    /\ pending' = None
    /\ pc' = "loop"
    /\ UNCHANGED <<max_iterations, tools, llm_client, current_input, previous_end,
                   thought, action_str, result, exc,
                   prompts, llm_outputs, tool_log>>
    /\ UNCHANGED <<other_call, parser_state>>

\* Mutant of ToolRaises: the loop catches the exception and makes an
\* observation of it.
ToolRaises_caught ==
    /\ pc = "tool"
    /\ \E o \in ToolOutcomes(tools[Val(pending).tool_name], Val(pending).kwargs) :
        /\ o.raised
        /\ conversation_history' =
               add_to_history(conversation_history, ObservationStr(<<o.value[1]>>))
    /\ iteration' = iteration + 1
    /\ pending' = None
    /\ pc' = "loop"
    /\ UNCHANGED <<max_iterations, tools, llm_client, current_input, previous_end,
                   thought, action_str, result, exc,
                   prompts, llm_outputs, tool_log>>
    /\ UNCHANGED <<other_call, parser_state>>

\* Mutant of ToolRaises: the model output of the failing iteration is taken
\* off the transcript before the exception leaves.
ToolRaises_rollback ==
    /\ pc = "tool"
    /\ \E o \in ToolOutcomes(tools[Val(pending).tool_name], Val(pending).kwargs) :
        /\ o.raised
        /\ exc' = Some([type |-> o.value[1], origin |-> "tool"])
    /\ conversation_history' =
           SubSeq(conversation_history, 1, Len(conversation_history) - 1)
    /\ pending' = None
    /\ pc' = "raised"
    /\ UNCHANGED <<max_iterations, tools, llm_client, current_input, previous_end,
                   iteration,
                   thought, action_str, result, prompts, llm_outputs, tool_log>>
    /\ UNCHANGED <<other_call, parser_state>>

\* The tool call raises: nothing in run catches it.
ToolRaises ==
    /\ pc = "tool"
    /\ \E o \in ToolOutcomes(tools[Val(pending).tool_name], Val(pending).kwargs) :
        /\ o.raised
        /\ exc' = Some([type |-> o.value[1], origin |-> "tool"])
    /\ pending' = None
    /\ pc' = "raised"
    /\ UNCHANGED <<max_iterations, tools, llm_client, current_input, previous_end,
                   conversation_history, iteration,
                   thought, action_str, result, prompts, llm_outputs, tool_log>>
    /\ UNCHANGED <<other_call, parser_state>>

Next ==
    \/ \E u \in UserInputs : Run(u)
    \/ Reset
    \/ CallLLM
    \/ LoopExhausted
    \/ LLMRaises
    \/ \E text \in LLMOutputs : LLMReturns(text)
    \/ ToolReturns
    \/ ToolRaises

Spec == Init /\ [][Next]_vars

\* The steps of a run that is under way: the one thread of run goes on, and a
\* blocking call returns or raises.
Step ==
    \/ CallLLM
    \/ LoopExhausted
    \/ LLMRaises
    \/ \E text \in LLMOutputs : LLMReturns(text)
    \/ ToolReturns
    \/ ToolRaises

FairSpec == Spec /\ WF_vars(Step)

\* ------------------------------------- two calls of run on one agent

\* The agent's configuration, which no call of run changes.
config == <<max_iterations, tools, llm_client>>

\* The locals and the trace of the first call of run.
first_call == <<pc, iteration, thought, action_str, pending, result, exc, prompts,
                llm_outputs, tool_log, current_input, previous_end>>

\* The second call of run starts: it assigns self.conversation_history, the
\* one list both calls read and append to.
Run2(user_input) ==
    /\ pc2 \in {"idle", "done", "raised"}
    /\ conversation_history' = InitialHistory(user_input)
    /\ current_input2' = Some(user_input)
    /\ iteration2' = 0
    /\ pending2' = None
    /\ result2' = None
    /\ exc2' = None
    /\ prompts2' = <<>>
    /\ llm_outputs2' = <<>>
    /\ pc2' = "loop"
    /\ UNCHANGED <<config, first_call, parser_state>>

\* The second call builds its prompt from self.conversation_history and calls
\* generate.
CallLLM2 ==
    /\ pc2 = "loop"
    /\ LoopContinues(iteration2, max_iterations)
    /\ prompts2' = Append(prompts2, get_full_prompt(conversation_history))
    /\ pc2' = "generate"
    /\ UNCHANGED <<config, first_call, parser_state, conversation_history, iteration2,
                   pending2, result2, exc2, llm_outputs2, current_input2>>

\* The range of the second call is exhausted.
LoopExhausted2 ==
    /\ pc2 = "loop"
    /\ ~LoopContinues(iteration2, max_iterations)
    /\ result2' = Some(ReturnAfterLoop)
    /\ pc2' = "done"
    /\ UNCHANGED <<config, first_call, parser_state, conversation_history, iteration2,
                   pending2, exc2, prompts2, llm_outputs2, current_input2>>

\* generate returns text to the second call, which appends it to
\* self.conversation_history and acts on it as the first call does.
LLMReturns2(text) ==
    /\ pc2 = "generate"
    /\ llm_client = "Conforming"
    /\ \E it \in {Iteration(text, tools)} :
       LET history == add_to_history(conversation_history, it.llm_output)
       IN  /\ llm_outputs2' = Append(llm_outputs2, text)
           /\ \/ /\ it.branch = "break"
                 /\ result2' = Some(ReturnAfterLoop)
                 /\ pc2' = "done"
                 /\ conversation_history' = history
                 /\ UNCHANGED <<iteration2, pending2, exc2>>
              \/ /\ it.branch = "finish"
                 /\ result2' = Some(Finished(Get(it.call.kwargs, AnswerKey, TaskFinished)))
                 /\ pc2' = "done"
                 /\ conversation_history' = history
                 /\ UNCHANGED <<iteration2, pending2, exc2>>
              \/ /\ it.branch = "raise"
                 /\ exc2' = Some([type |-> "ValueError", origin |-> "parse_action"])
                 /\ pc2' = "raised"
                 /\ conversation_history' = history
                 /\ UNCHANGED <<iteration2, pending2, result2>>
              \/ /\ it.branch = "call"
                 /\ pending2' = Some([tool_name |-> it.call.tool_name,
                                      kwargs |-> it.call.kwargs])
                 /\ pc2' = "tool"
                 /\ conversation_history' = history
                 /\ UNCHANGED <<iteration2, result2, exc2>>
              \/ /\ it.branch = "undefined"
                 /\ conversation_history' =
                        add_to_history(history,
                                       ObservationStr(UndefinedToolError(it.call.tool_name)))
                 /\ iteration2' = iteration2 + 1
                 /\ pc2' = "loop"
                 /\ UNCHANGED <<pending2, result2, exc2>>
    /\ UNCHANGED <<config, first_call, parser_state, prompts2, current_input2>>

\* The tool returns to the second call.
ToolReturns2 ==
    /\ pc2 = "tool"
    /\ \E o \in ToolOutcomes(tools[Val(pending2).tool_name], Val(pending2).kwargs) :
        /\ ~o.raised
        /\ conversation_history' =
               add_to_history(conversation_history, ObservationStr(o.value))
    /\ iteration2' = iteration2 + 1
    /\ pending2' = None
    /\ pc2' = "loop"
    /\ UNCHANGED <<config, first_call, parser_state, result2, exc2, prompts2,
                   llm_outputs2, current_input2>>

\* The tool call of the second call raises.
ToolRaises2 ==
    /\ pc2 = "tool"
    /\ \E o \in ToolOutcomes(tools[Val(pending2).tool_name], Val(pending2).kwargs) :
        /\ o.raised
        /\ exc2' = Some([type |-> o.value[1], origin |-> "tool"])
    /\ pending2' = None
    /\ pc2' = "raised"
    /\ UNCHANGED <<config, first_call, parser_state, conversation_history, iteration2,
                   result2, prompts2, llm_outputs2, current_input2>>

\* The largest config.max_iterations of an agent that two threads call.
MaxConcIterations == 2

\* Two threads call run once each on one agent, built as main() builds it, with
\* a transport that takes generate's keywords.
ConcInit ==
    /\ Init
    /\ max_iterations \in 1..MaxConcIterations
    /\ tools = MainTools
    /\ llm_client = "Conforming"

\* The texts the transport returns to the two calls.
ConcOutputs == {OutWeather, OutFinish}

FirstCallStarts == pc = "idle" /\ Run(InputOslo)
SecondCallStarts == pc2 = "idle" /\ Run2(InputHi)

\* A thread is switched at the latest where its call blocks, in generate and in
\* a tool; the steps of the two calls interleave freely.
ConcNext ==
    \/ FirstCallStarts
    \/ CallLLM
    \/ LoopExhausted
    \/ \E text \in ConcOutputs : LLMReturns(text)
    \/ ToolReturns
    \/ ToolRaises
    \/ SecondCallStarts
    \/ CallLLM2
    \/ LoopExhausted2
    \/ \E text \in ConcOutputs : LLMReturns2(text)
    \/ ToolReturns2
    \/ ToolRaises2

ConcSpec == ConcInit /\ [][ConcNext]_vars

\* --------------------------------- the parser's functions on their own

PieceThought ==
    <<"T", "h", "o", "u", "g", "h", "t", ":", " ", "a">>
PieceAction ==
    <<"A", "c", "t", "i", "o", "n", ":", " ", "b", "(", ")">>
PieceObservation ==
    <<"O", "b", "s", "e", "r", "v", "a", "t", "i", "o", "n", ":", " ", "o">>
PieceOther ==
    <<"x", " ">>
ActFinishParis ==
    <<"f", "i", "n", "i", "s", "h", "(", "a", "n", "s", "w", "e", "r", "=", "\"", "P", "a",
       "r", "i", "s", " ", "i", "s", " ", "g", "r", "e", "a", "t", "\"", ")">>
ActFinishBare ==
    <<"f", "i", "n", "i", "s", "h">>
ActFinishTrip ==
    <<"f", "i", "n", "i", "s", "h", "_", "t", "r", "i", "p", "(", "c", "i", "t", "y", "=",
       "\"", "O", "s", "l", "o", "\"", ")">>
ActFinishSpaced ==
    <<"f", "i", "n", "i", "s", "h", " ", "(", "a", "n", "s", "w", "e", "r", "=", "\"", "x",
       "\"", ")">>
ActGetWeatherParis ==
    <<"g", "e", "t", "_", "w", "e", "a", "t", "h", "e", "r", "(", "c", "i", "t", "y", "=",
       "\"", "P", "a", "r", "i", "s", "\"", ")">>
ActNotValid ==
    <<"n", "o", "t", " ", "v", "a", "l", "i", "d", " ", "t", "e", "x", "t">>
ActGetAttraction ==
    <<"g", "e", "t", "_", "a", "t", "t", "r", "a", "c", "t", "i", "o", "n", "(", "c", "i", "t",
       "y", "=", "\"", "O", "s", "l", "o", "\"", ",", " ", "w", "e", "a", "t", "h", "e", "r",
       "=", "\"", "S", "u", "n", "n", "y", "\"", ")">>
ActSkippedPieces ==
    <<"b", "o", "o", "k", "(", "c", "i", "t", "y", "=", "\"", "O", "s", "l", "o", "\"", ",",
       " ", "3", ",", " ", "d", "a", "y", "s", "=", "2", ",", " ", "n", "o", "t", "e", "=",
       "\"", "x", "\"", ")">>
ActNoArgs ==
    <<"b", "(", ")">>
ActTwoLines ==
    <<"g", "e", "t", "_", "a", "t", "t", "r", "a", "c", "t", "i", "o", "n", "(", "c", "i", "t",
       "y", "=", "\"", "O", "s", "l", "o", "\"", ",", "\n", "w", "e", "a", "t", "h", "e", "r",
       "=", "\"", "S", "u", "n", "n", "y", "\"", ")">>
ActNoIdentifier ==
    <<"(", "c", "i", "t", "y", "=", "\"", "O", "s", "l", "o", "\"", ")">>
ActNoParens ==
    <<"g", "e", "t", "_", "w", "e", "a", "t", "h", "e", "r">>
ActNoCloser ==
    <<"g", "e", "t", "_", "w", "e", "a", "t", "h", "e", "r", "(", "c", "i", "t", "y", "=",
       "\"", "O", "s", "l", "o", "\"">>
ActTrailingText ==
    <<"g", "e", "t", "_", "w", "e", "a", "t", "h", "e", "r", "(", "c", "i", "t", "y", "=",
       "\"", "P", "a", "r", "i", "s", "\"", ")", " ", "n", "o", "w">>
ParisIsGreat ==
    <<"P", "a", "r", "i", "s", " ", "i", "s", " ", "g", "r", "e", "a", "t">>
Paris ==
    <<"P", "a", "r", "i", "s">>

\* What follows a label, or stands between labels, in a text the model returns.
Pieces == {PieceThought, PieceAction, PieceObservation, PieceOther}

\* What separates two pieces: a line break or a blank.
Separators == {<<"\n">>, <<" ">>}

\* The action texts given to parse_action.
ActionTexts ==
    {ActFinishParis, ActFinishBare, ActFinishTrip, ActFinishSpaced, ActGetWeatherParis,
     ActNotValid, ActGetAttraction, ActSkippedPieces, ActNoArgs, ActTwoLines,
     ActNoIdentifier, ActNoParens, ActNoCloser, ActTrailingText}

\* The largest number of pieces of a text.
MaxPieces == 4

\* The text the pieces make.
Text == Join(<<>>, parts)

\* No agent runs; the text is empty and nothing has been applied to it.
ParserInit ==
    /\ Init
    /\ max_iterations = 0
    /\ tools = MainTools
    /\ llm_client = "Conforming"

\* One more piece of the text, behind a separator.
AppendPiece(separator, piece) ==
    /\ applied = None
    /\ Len(parts) < MaxPieces
    /\ parts' = Append(parts, separator \o piece)
    /\ UNCHANGED <<agent_state, other_call, applied>>

\* ResponseParser.parse_llm_output(Text)
ParseLLMOutput ==
    /\ applied = None
    /\ applied' = Some([op |-> "parse_llm_output", input |-> Text,
                        value |-> parse_llm_output(Text)])
    /\ UNCHANGED <<agent_state, other_call, parts>>

\* ResponseParser.truncate_multiple_actions(Text)
Truncate ==
    /\ applied = None
    /\ applied' = Some([op |-> "truncate_multiple_actions", input |-> Text,
                        value |-> truncate_multiple_actions(Text)])
    /\ UNCHANGED <<agent_state, other_call, parts>>

\* ResponseParser.truncate_multiple_actions applied to its own result.
TruncateAgain ==
    /\ IsSome(applied)
    /\ Val(applied).op = "truncate_multiple_actions"
    /\ applied' = Some([op |-> "truncate_multiple_actions again",
                        input |-> Val(applied).value,
                        value |-> truncate_multiple_actions(Val(applied).value)])
    /\ UNCHANGED <<agent_state, other_call, parts>>

\* ResponseParser.parse_action(action_text)
ParseAction(action_text) ==
    /\ applied = None
    /\ parts = <<>>
    /\ applied' = Some([op |-> "parse_action", input |-> action_text,
                        value |-> parse_action(action_text)])
    /\ UNCHANGED <<agent_state, other_call, parts>>

ParserNext ==
    \/ \E separator \in Separators, piece \in Pieces : AppendPiece(separator, piece)
    \/ ParseLLMOutput
    \/ Truncate
    \/ TruncateAgain
    \/ \E action_text \in ActionTexts : ParseAction(action_text)

ParserSpec == ParserInit /\ [][ParserNext]_vars

\* ------------------- several pairs in one text, and a tool named finish_trip

OutTwoPairsOneLine ==
    <<"T", "h", "o", "u", "g", "h", "t", ":", " ", "a", " ", "A", "c", "t", "i", "o", "n", ":",
       " ", "b", "o", "o", "k", "(", ")", " ", "T", "h", "o", "u", "g", "h", "t", ":", " ",
       "b", " ", "A", "c", "t", "i", "o", "n", ":", " ", "f", "i", "n", "i", "s", "h", "(",
       "a", "n", "s", "w", "e", "r", "=", "\"", "B", "\"", ")">>
OutPairsWithObservation ==
    <<"T", "h", "o", "u", "g", "h", "t", ":", " ", "a", "\n", "A", "c", "t", "i", "o", "n",
       ":", " ", "g", "e", "t", "_", "w", "e", "a", "t", "h", "e", "r", "(", "c", "i", "t",
       "y", "=", "\"", "O", "s", "l", "o", "\"", ")", "\n", "O", "b", "s", "e", "r", "v", "a",
       "t", "i", "o", "n", ":", " ", "s", "u", "n", "n", "y", "\n", "T", "h", "o", "u", "g",
       "h", "t", ":", " ", "b", "\n", "A", "c", "t", "i", "o", "n", ":", " ", "f", "i", "n",
       "i", "s", "h", "(", "a", "n", "s", "w", "e", "r", "=", "\"", "B", "\"", ")">>
FinishTripName ==
    <<"f", "i", "n", "i", "s", "h", "_", "t", "r", "i", "p">>

\* A registry that also has entries under the names finish and finish_trip.
ToolsWithFinishTrip == ToolsWithFinish @@ (FinishTripName :> "WeatherTool")

\* The texts the transport returns: two pairs on lines of their own, two pairs
\* on one line, a pair followed by an invented observation and a second pair,
\* and single actions.
EdgeOutputs ==
    {OutTwoPairs, OutTwoPairsOneLine, OutPairsWithObservation, OutFinishTrip, OutFinish,
     OutWeather}

\* An agent with that registry and a transport that takes generate's keywords.
EdgeInit ==
    /\ max_iterations \in 1..MaxIterations
    /\ tools = ToolsWithFinishTrip
    /\ llm_client = "Conforming"
    /\ pc = "idle"
    /\ conversation_history = <<>>
    /\ iteration = 0
    /\ thought = None
    /\ action_str = None
    /\ pending = None
    /\ result = None
    /\ exc = None
    /\ prompts = <<>>
    /\ llm_outputs = <<>>
    /\ tool_log = <<>>
    /\ current_input = None
    /\ previous_end = "none"
    /\ pc2 = "idle"
    /\ iteration2 = 0
    /\ pending2 = None
    /\ result2 = None
    /\ exc2 = None
    /\ prompts2 = <<>>
    /\ llm_outputs2 = <<>>
    /\ current_input2 = None
    /\ parts = <<>>
    /\ applied = None

EdgeNext ==
    \/ \E u \in UserInputs : Run(u)
    \/ Reset
    \/ CallLLM
    \/ LoopExhausted
    \/ \E text \in EdgeOutputs : LLMReturns(text)
    \/ ToolReturns
    \/ ToolRaises

EdgeSpec == EdgeInit /\ [][EdgeNext]_vars

\* ---------------------------------------------------------------- claims

Ended == pc \in {"done", "raised"}

\* What parse_action makes of the action of the latest iteration.
Invocation == parse_action(Val(action_str))

\* The latest action parses to a tool name that is neither finish nor in the
\* registry.
NamesAbsentTool ==
    /\ IsSome(action_str)
    /\ Val(action_str) # <<>>
    /\ ~Invocation.raised
    /\ Invocation.tool_name \notin (DOMAIN tools) \cup {FinishToken}

\* The observation the loop makes for the latest action's unknown tool.
UndefinedObservation == ObservationStr(UndefinedToolError(Invocation.tool_name))

\* No registry entry was called in the current iteration.
NoToolCallThisIteration == \A i \in DOMAIN tool_log : tool_log[i].iteration # iteration

\* C1: in a run the number of generate calls never exceeds max_iterations.
C1_ModelCallsBounded == Len(prompts) <= max_iterations

C1_Witness ==
    /\ pc = "done"
    /\ max_iterations = MaxIterations
    /\ Len(prompts) = max_iterations
    /\ Len(tool_log) >= 1

\* C2, as stated: a run in which every model call and every tool call
\* returned ends with an outcome, never without one.
C2_AlwaysAnOutcome ==
    (Ended /\ (IsSome(exc) => Val(exc).origin \notin {"generate", "tool"}))
        => IsSome(result)

\* C2, amended: a started run ends; it ends either with exactly one outcome,
\* Finished or Failed, which no other outcome replaces before the next call of
\* run or reset, or with an exception and no outcome; and when every model call and tool call returned, that exception
\* is the ValueError of parse_action.
C2_EndsWithOutcomeOrValueError ==
    /\ (pc = "loop") ~> Ended
    /\ [](pc = "done" => /\ IsSome(result)
                         /\ Val(result).kind \in {"Finished", "Failed"}
                         /\ ~IsSome(exc))
    /\ [](pc = "raised" => /\ ~IsSome(result)
                           /\ IsSome(exc)
                           /\ Val(exc).origin \notin {"generate", "tool"}
                                => Val(exc) = [type |-> "ValueError",
                                               origin |-> "parse_action"])
    /\ [](IsSome(result) => pc = "done")
    /\ [][IsSome(result) => (result' = result \/ (result' = None /\ pc' \in {"loop", "idle"}))]_vars

C2_Witness ==
    /\ pc = "raised"
    /\ Val(exc).origin = "parse_action"
    /\ Len(prompts) = MaxIterations
    /\ Len(tool_log) >= 1

\* C3: an action whose tool name is finish is never given to the registry,
\* also when the registry has an entry named finish: no registry entry is
\* called for it and the run is Finished on that iteration.
C3_FinishNeverDispatched ==
    /\ \A i \in DOMAIN tool_log : tool_log[i].tool_name # FinishToken
    /\ (/\ IsSome(action_str)
        /\ ~Invocation.raised
        /\ Invocation.tool_name = FinishToken)
          => /\ pc = "done"
             /\ Val(result).kind = "Finished"
             /\ pending = None
             /\ NoToolCallThisIteration
             /\ Len(prompts) = iteration + 1

C3_Witness ==
    /\ tools = ToolsWithFinish
    /\ pc = "done"
    /\ IsSome(action_str)
    /\ Invocation.tool_name = FinishToken
    /\ llm_outputs[Len(llm_outputs)] = OutFinish
    /\ iteration = 1

\* C4, as stated: an iteration without an action segment ends the run with an
\* outcome other than the max-iterations failure, and the max-iterations
\* failure is returned only when the iteration bound was reached.
C4_NoActionOutcomeDistinct ==
    /\ (pc = "done" /\ ~IsSome(action_str) /\ llm_outputs # <<>>)
          => Val(result) # Failed(MaxIterationMessage)
    /\ (pc = "done" /\ Val(result) = Failed(MaxIterationMessage))
          => iteration = max_iterations

NoActionLabel(text) == ~Contains(text, LblAction)

\* C5: when every text the transport returned has no Action label, the run
\* made exactly one model call and no tool call and has ended with a failure
\* outcome, whatever max_iterations is.
C5_NoActionEndsAfterOneCall ==
    (/\ llm_outputs # <<>>
     /\ \A i \in DOMAIN llm_outputs : NoActionLabel(llm_outputs[i]))
        => /\ Len(prompts) = 1
           /\ Len(llm_outputs) = 1
           /\ tool_log = <<>>
           /\ pc = "done"
           /\ Val(result).kind = "Failed"

C5_Witness ==
    /\ pc = "done"
    /\ llm_outputs = <<OutNoAction>>
    /\ max_iterations = MaxIterations
    /\ Len(prompts) = 1

\* C6, as stated: after a first model output finish(answer="A") the run has
\* made one model call and no tool call and returned the answer A.
C6_FinishReturnsAnswer ==
    (pc = "done" /\ llm_outputs = <<OutFinish>>)
        => /\ Len(prompts) = 1
           /\ tool_log = <<>>
           /\ Val(result) = Finished(<<"A">>)

\* The text is a well-formed action that names a tool which is not in the
\* registry (and is not finish).
AbsentToolAction(text, registry) ==
    LET a == parse_llm_output(truncate_multiple_actions(text)).action
    IN  /\ IsSome(a)
        /\ Val(a) # <<>>
        /\ ~parse_action(Val(a)).raised
        /\ parse_action(Val(a)).tool_name \notin (DOMAIN registry) \cup {FinishToken}

\* C7: when every text the transport returned is a well-formed action naming
\* an absent tool, nothing is raised, no registry entry is called, every
\* iteration appended its output and one undefined-tool observation, and the
\* run ends only after exactly max_iterations model calls, with the
\* max-iterations failure.
C7_AbsentToolRunsToTheBound ==
    (/\ conversation_history # <<>>
     /\ llm_client = "Conforming"
     /\ \A i \in DOMAIN llm_outputs : AbsentToolAction(llm_outputs[i], tools))
        => /\ pc \in {"loop", "generate", "done"}
           /\ exc = None
           /\ tool_log = <<>>
           /\ iteration = Len(llm_outputs)
           /\ Len(conversation_history) = 1 + 2 * Len(llm_outputs)
           /\ \A i \in DOMAIN llm_outputs :
                 conversation_history[2 * i + 1] =
                     ObservationStr(UndefinedToolError(
                         parse_action(Val(parse_llm_output(
                             truncate_multiple_actions(llm_outputs[i])).action)).tool_name))
           /\ pc = "done" => /\ Len(prompts) = max_iterations
                             /\ Val(result) = Failed(MaxIterationMessage)

C7_Witness ==
    /\ pc = "done"
    /\ max_iterations = MaxIterations
    /\ Len(llm_outputs) = MaxIterations
    /\ \A i \in DOMAIN llm_outputs : llm_outputs[i] = OutUndefined

\* C8: when the action of an iteration does not match identifier(...), the
\* ValueError of parse_action has left run: there is no outcome, no registry
\* entry was called in that iteration and no model call follows.
C8_MalformedActionPropagates ==
    (/\ IsSome(action_str)
     /\ Val(action_str) # <<>>
     /\ Invocation.raised)
        => /\ pc = "raised"
           /\ Val(exc) = [type |-> "ValueError", origin |-> "parse_action"]
           /\ ~IsSome(result)
           /\ pending = None
           /\ NoToolCallThisIteration
           /\ Len(prompts) = iteration + 1
           /\ Len(llm_outputs) = Len(prompts)

C8_Witness ==
    /\ pc = "raised"
    /\ IsSome(action_str)
    /\ Invocation.raised
    /\ iteration = 1
    /\ max_iterations = MaxIterations

\* C9: when the latest action names a tool absent from the registry, nothing
\* has been raised, the transcript ends with the undefined-tool observation,
\* and the prompt of the next model call contains that observation.
C9_UndefinedToolFedBack ==
    NamesAbsentTool
        => /\ pc \in {"loop", "generate", "done"}
           /\ exc = None
           /\ conversation_history[Len(conversation_history)] = UndefinedObservation
           /\ Contains(UndefinedObservation, Invocation.tool_name)
           /\ pc = "generate" =>
                 Contains(prompts[Len(prompts)], UndefinedObservation)

C9_Witness ==
    /\ NamesAbsentTool
    /\ pc = "generate"
    /\ Len(prompts) = 2

\* C10, as stated: no error of a registered tool's call leaves run.
C10_ToolErrorsNeverEscape ==
    ~(pc = "raised" /\ Val(exc).origin = "tool")

\* a is b or the beginning of b.
IsPrefix(a, b) == Len(a) <= Len(b) /\ SubSeq(b, 1, Len(a)) = a

\* C11, as stated: in every state of a run the first entry of the transcript
\* is the user_input string that was passed to run.
C11_FirstEntryIsUserInput ==
    pc # "idle" => /\ conversation_history # <<>>
                   /\ conversation_history[1] = Val(current_input)

\* C11, amended: in every state of a run the first entry of the transcript is
\* "user input: " followed by the user_input passed to run, and every step of
\* the run leaves the entries there are where they are and only adds entries
\* at the end.
C11_LabelledInputFirstAppendOnly ==
    /\ [](pc # "idle" => /\ conversation_history # <<>>
                         /\ conversation_history[1] =
                                UserInputPrefix \o Val(current_input))
    /\ [][~NotRunning => IsPrefix(conversation_history, conversation_history')]_vars

C11_Witness ==
    /\ pc = "done"
    /\ current_input = Some(InputOslo)
    /\ Len(conversation_history) = 1 + 2 * MaxIterations
    /\ conversation_history[1] = UserInputPrefix \o InputOslo

\* C12: the prompt of a model call is the whole transcript joined in order;
\* the first prompt is the first entry, and the prompt of call i+1 is the
\* prompt of call i, a proper prefix of it, followed by the model output of
\* iteration i as the loop appended it and by the observation of iteration i.
C12_PromptReplaysWholeTranscript ==
    /\ Len(prompts) >= 1 => prompts[1] = conversation_history[1]
    /\ pc = "generate" =>
          prompts[Len(prompts)] = Join(<<"\n">>, conversation_history)
    /\ \A i \in 1..(Len(prompts) - 1) :
          /\ conversation_history[2 * i] = truncate_multiple_actions(llm_outputs[i])
          /\ StartsWith(conversation_history[2 * i + 1], ObservationPrefix)
          /\ prompts[i + 1] = prompts[i] \o <<"\n">> \o conversation_history[2 * i]
                                         \o <<"\n">> \o conversation_history[2 * i + 1]
          /\ IsPrefix(prompts[i], prompts[i + 1])
          /\ Len(prompts[i]) < Len(prompts[i + 1])

C12_Witness ==
    /\ pc = "generate"
    /\ Len(prompts) = MaxIterations
    /\ llm_outputs = <<OutWeather, OutUndefined>>

\* The outcome a call of run on a fresh agent returns when generate returns
\* the texts outputs, one after the other, and the call returns.
FreshOutcome(outputs, registry) ==
    IF outputs = <<>> THEN Failed(MaxIterationMessage)
    ELSE LET last == Iteration(outputs[Len(outputs)], registry)
         IN  IF last.branch = "finish"
             THEN Finished(Get(last.call.kwargs, AnswerKey, TaskFinished))
             ELSE Failed(MaxIterationMessage)

\* C13: whatever the calls of run before it did and however they ended, a
\* call of run works on a transcript that holds its own user input and what
\* this call appended, and nothing else: one entry per text generate returned
\* and one per finished iteration; every prompt is the join of entries of this
\* call; and the outcome is the one a fresh agent returns for the same texts.
C13_SequentialRunsIndependent ==
    pc # "idle" =>
        /\ conversation_history[1] = UserInputPrefix \o Val(current_input)
        /\ Len(conversation_history) = 1 + Len(llm_outputs) + iteration
        /\ \A i \in DOMAIN llm_outputs :
              conversation_history[2 * i]
                  = truncate_multiple_actions(llm_outputs[i])
        /\ \A k \in DOMAIN prompts :
              prompts[k] = Join(<<"\n">>, SubSeq(conversation_history, 1, 2 * k - 1))
        /\ pc = "done" => result = Some(FreshOutcome(llm_outputs, tools))

C13_Witness ==
    /\ previous_end = "raised"
    /\ pc = "done"
    /\ Val(result).kind = "Finished"
    /\ Len(prompts) = 2
    /\ Len(conversation_history) = 4

\* C15, as stated: the call of generate with prompt, system_prompt,
\* temperature and max_tokens returns a text and never raises into the loop:
\* no run ends with an exception that came out of generate, and a call of
\* generate is always followed by a text in the transcript.
C15_GenerateNeverRaises ==
    /\ ~(pc = "raised" /\ Val(exc).origin = "generate")
    /\ pc \notin {"idle", "generate"} => Len(llm_outputs) = Len(prompts)

\* C14: two calls of run on one agent work on one transcript.  Whenever either
\* call sends a prompt, the prompt is the join of all of self.conversation_history
\* as it then is, whichever call wrote its entries; whenever either call
\* starts, the transcript becomes its one input entry, whatever the other call
\* had appended; and whatever either call appends is added to that same list.
C14_InterleavedRunsShareTranscript ==
    [][/\ Len(prompts') = Len(prompts) + 1 =>
              prompts'[Len(prompts')] = Join(<<"\n">>, conversation_history)
       /\ Len(prompts2') = Len(prompts2) + 1 =>
              prompts2'[Len(prompts2')] = Join(<<"\n">>, conversation_history)
       /\ (pc = "idle" /\ pc' = "loop") =>
              conversation_history' = <<UserInputPrefix \o Val(current_input')>>
       /\ (pc2 = "idle" /\ pc2' = "loop") =>
              conversation_history' = <<UserInputPrefix \o Val(current_input2')>>
       /\ (Len(llm_outputs') = Len(llm_outputs) + 1
              \/ Len(llm_outputs2') = Len(llm_outputs2) + 1
              \/ iteration' = iteration + 1
              \/ iteration2' = iteration2 + 1) =>
              /\ IsPrefix(conversation_history, conversation_history')
              /\ Len(conversation_history') > Len(conversation_history)
      ]_vars

\* The second call has received no text yet, and the prompt it has sent holds
\* the model output and the observation of the first call; the first call's
\* own input entry was discarded by the second call's start.
C14_Witness ==
    /\ pc2 = "generate"
    /\ llm_outputs2 = <<>>
    /\ llm_outputs = <<OutWeather>>
    /\ iteration = 1
    /\ Contains(prompts2[1], truncate_multiple_actions(OutWeather))
    /\ Contains(prompts2[1], ObservationPrefix \o <<"O", "s", "l", "o">>
                                  \o CurrentWeatherText)
    /\ ~Contains(prompts2[1], InputOslo)
    /\ current_input = Some(InputOslo)

\* What a parser function was applied to, and what it returned.
AppliedTo(op) == IsSome(applied) /\ Val(applied).op = op
Input == Val(applied).input
Value == Val(applied).value

\* s has no white space at its beginning or at its end.
Trimmed(s) == s = <<>> \/ (s[1] \notin WhiteSpace /\ s[Len(s)] \notin WhiteSpace)

\* x holds a Thought label and, behind it, an Action label.
ThoughtThenAction(x) ==
    /\ Contains(x, LblThought)
    /\ Find(LblAction, x, Find(LblThought, x, 1) + Len(LblThought)) # 0

\* C16: for a text with a Thought label and an Action label behind it,
\* parse_llm_output returns both fields, neither with white space at an end:
\* thought is the text between the first Thought label and the next Action
\* label, action the text from the first Action label to the next Thought
\* label or to the end of the text.
C16_ParseStepReturnsBothTrimmed ==
    (AppliedTo("parse_llm_output") /\ ThoughtThenAction(Input))
        => LET x == Input
               i == Find(LblThought, x, 1)
               j == Find(LblAction, x, i + Len(LblThought))
               a == Find(LblAction, x, 1)
               t == Find(LblThought, x, a + Len(LblAction))
           IN  /\ IsSome(Value.thought)
               /\ IsSome(Value.action)
               /\ Trimmed(Val(Value.thought))
               /\ Trimmed(Val(Value.action))
               /\ Val(Value.thought) = Strip(SubSeq(x, i + Len(LblThought), j - 1))
               /\ Val(Value.action) =
                      Strip(SubSeq(x, a + Len(LblAction), IF t = 0 THEN Len(x) ELSE t - 1))

C16_Witness ==
    /\ AppliedTo("parse_llm_output")
    /\ ThoughtThenAction(Input)
    /\ Len(parts) = MaxPieces
    /\ Value.thought = Some(<<"a", " ", "x">>)
    /\ Value.action = Some(<<"b", "(", ")">>)
    /\ Input[1] = "\n"

\* o is None or Some(text).
OptionalText(o) ==
    /\ Len(o) <= 1
    /\ IsSome(o) => \A k \in DOMAIN Val(o) : Val(o)[k] \in STRING

\* C17: parse_llm_output raises for no text: for every text it returns the
\* pair of thought and action, each None or a text; thought is None when the
\* text has no Thought label and action is None when it has no Action label.
C17_ParseStepTotalAbsentIsNone ==
    /\ (applied = None) => ENABLED ParseLLMOutput
    /\ AppliedTo("parse_llm_output")
          => /\ DOMAIN Value = {"thought", "action"}
             /\ OptionalText(Value.thought)
             /\ OptionalText(Value.action)
             /\ ~Contains(Input, LblThought) => Value.thought = None
             /\ ~Contains(Input, LblAction) => Value.action = None

C17_Witness ==
    /\ AppliedTo("parse_llm_output")
    /\ Len(parts) = MaxPieces
    /\ ~Contains(Input, LblThought)
    /\ Contains(Input, LblAction)
    /\ Value.thought = None
    /\ IsSome(Value.action)

\* C18: truncate_multiple_actions applied to its own result returns that
\* result, for every text.
C18_TruncateIdempotent ==
    AppliedTo("truncate_multiple_actions again") => Value = Input

\* The first application cut the text, the second leaves the rest as it is.
C18_Witness ==
    /\ AppliedTo("truncate_multiple_actions again")
    /\ Len(parts) = MaxPieces
    /\ Input # Text
    /\ Len(Input) < Len(Strip(Text))
    /\ Value = Input

\* The first position >= from of x where a Thought, Action or Observation
\* label stands, 0 when there is none.
RECURSIVE NextLabel(_, _)
NextLabel(x, from) ==
    IF from > Len(x) THEN 0
    ELSE IF LabelAt(x, from) THEN from
    ELSE NextLabel(x, from + 1)

\* Where the first pair of x is: its Thought label, the end of its Action
\* label, and the next label behind that.
FirstThought(x) == Find(LblThought, x, 1)
FirstActionEnd(x) == Find(LblAction, x, FirstThought(x) + Len(LblThought)) + Len(LblAction)
LabelAfterFirstPair(x) == NextLabel(x, FirstActionEnd(x))

\* x holds two Thought/Action pairs, one behind the other.
TwoPairs(x) ==
    /\ ThoughtThenAction(x)
    /\ LET k == Find(LblThought, x, FirstActionEnd(x))
       IN  k # 0 /\ Find(LblAction, x, k + Len(LblThought)) # 0

\* The label at n starts a line behind position from: a line break and
\* nothing but white space stand right before it.
StartsLine(x, n, from) ==
    \E e \in from..(n - 1) : x[e] = "\n" /\ SkipSpace(x, e + 1) = n

\* The text of the first pair of x: from the first Thought label to the next
\* label behind the first Action label, stripped.
FirstPairText(x) == Strip(SubSeq(x, FirstThought(x), LabelAfterFirstPair(x) - 1))

\* C19, as stated: for every text with two Thought/Action pairs in sequence
\* truncate_multiple_actions returns the first pair's text alone, which ends
\* before the next Thought, Action or Observation label behind the first
\* Action label.
C19_TruncateKeepsFirstPair ==
    (AppliedTo("truncate_multiple_actions") /\ TwoPairs(Input))
        => Value = FirstPairText(Input)

\* C19, amended: the same for every text with two pairs in which the next
\* label behind the first Action label starts a line.
C19_TruncateKeepsFirstPairBeforeLineLabel ==
    (/\ AppliedTo("truncate_multiple_actions")
     /\ TwoPairs(Input)
     /\ StartsLine(Input, LabelAfterFirstPair(Input), FirstActionEnd(Input)))
        => /\ Value = FirstPairText(Input)
           /\ Value # Input
           /\ NextLabel(Value, FirstActionEnd(Value)) = 0

C19_Witness ==
    /\ AppliedTo("truncate_multiple_actions")
    /\ TwoPairs(Input)
    /\ StartsLine(Input, LabelAfterFirstPair(Input), FirstActionEnd(Input))
    /\ Len(parts) = MaxPieces
    /\ Value = PieceThought \o <<" ">> \o PieceAction

\* The text between the first "(" and the last ")" of x; empty when x has no
\* such two.
BetweenParens(x) ==
    LET first == Find(<<"(">>, x, 1)
        last == LastCloser(x, 1, Len(x))
    IN  IF first = 0 \/ last <= first THEN <<>> ELSE SubSeq(x, first + 1, last - 1)

\* C20, as stated: for an action text that begins with finish, parse_action
\* returns the tool name finish and the one argument answer, the text between
\* the first "(" and the last ")"; and for finish(answer="Paris is great") the
\* answer is Paris is great (for this one text the example is taken as what
\* the claim asks, since the text between its parentheses is another one).
C20_FinishAnswerIsInnerText ==
    (AppliedTo("parse_action") /\ StartsWith(Input, FinishToken))
        => /\ ~Value.raised
           /\ Value.tool_name = FinishToken
           /\ DOMAIN Value.kwargs = {AnswerKey}
           /\ Input # ActFinishParis => Value.kwargs[AnswerKey] = BetweenParens(Input)
           /\ Input = ActFinishParis => Value.kwargs[AnswerKey] = ParisIsGreat

\* x begins with an identifier, a run of word characters, with "(" right
\* behind it and a ")" somewhere behind that.
HasOuterShape(x) ==
    LET open == Find(<<"(">>, x, 1)
    IN  /\ open > 1
        /\ \A k \in 1..(open - 1) : x[k] \in WordChars
        /\ Find(<<")">>, x, open + 1) # 0

\* The identifier x begins with.
LeadingIdentifier(x) == SubSeq(x, 1, Find(<<"(">>, x, 1) - 1)

\* Every key="value" of s: a whole run of word characters, then ="
\* and the text up to the next double quote.
QuotedPairs(s) ==
    {[key |-> SubSeq(s, t[1], t[2] - 1), value |-> SubSeq(s, t[2] + 2, t[3] - 1)] :
        t \in {u \in (1..Len(s)) \X (1..Len(s)) \X (1..Len(s)) :
                  /\ u[1] < u[2]
                  /\ u[2] + 2 <= u[3]
                  /\ \A k \in u[1]..(u[2] - 1) : s[k] \in WordChars
                  /\ (u[1] = 1 \/ s[u[1] - 1] \notin WordChars)
                  /\ MatchAt(<<"=", "\"">>, s, u[2])
                  /\ s[u[3]] = "\""
                  /\ \A k \in (u[2] + 2)..(u[3] - 1) : s[k] # "\""}}

\* kwargs holds the pairs and nothing else.
HoldsExactly(kwargs, pairs) ==
    /\ DOMAIN kwargs = {p.key : p \in pairs}
    /\ \A k \in DOMAIN kwargs : [key |-> k, value |-> kwargs[k]] \in pairs

\* C21, as stated: for an action text that does not begin with finish and has
\* the shape identifier(...), parse_action raises nothing and returns the
\* identifier as the tool name and a mapping that holds exactly the
\* key="value" pairs between the parentheses, whatever else stands between
\* them; for get_weather(city="Paris") the mapping is city -> Paris.
C21_CallYieldsNameAndMatchingPairs ==
    (/\ AppliedTo("parse_action")
     /\ ~StartsWith(Input, FinishToken)
     /\ HasOuterShape(Input))
        => /\ ~Value.raised
           /\ Value.tool_name = LeadingIdentifier(Input)
           /\ HoldsExactly(Value.kwargs, QuotedPairs(BetweenParens(Input)))
           /\ Input = ActGetWeatherParis => Value.kwargs = (CityKey :> Paris)

\* C22, as stated: parse_action raises its ValueError exactly for the action
\* texts that do not begin with finish and do not have the shape
\* identifier(...), for want of a leading identifier or of a parenthesis.
C22_RaisesExactlyWithoutOuterShape ==
    AppliedTo("parse_action")
        => (Value.raised <=> (~StartsWith(Input, FinishToken) /\ ~HasOuterShape(Input)))

\* The outcomes of the tool call in flight.
PendingOutcomes == ToolOutcomes(tools[Val(pending).tool_name], Val(pending).kwargs)

\* A registry entry's exception has left run.
ToolExceptionLeft == pc = "raised" /\ Val(exc).origin = "tool"

\* C23: a call of a registry entry ends in one of two ways.  It returns, and
\* its text becomes the observation; or it raises, and the exception leaves
\* run as it is: the step appends nothing, and after it the transcript ends
\* with the model output of that iteration, there is no outcome and no call in
\* flight, and the run makes no further model call or tool call.
C23_ToolExceptionPropagates ==
    /\ [][pc = "tool" =>
            \/ /\ pc' = "loop"
               /\ \E o \in PendingOutcomes :
                     /\ ~o.raised
                     /\ conversation_history' =
                            Append(conversation_history, ObservationPrefix \o o.value)
            \/ /\ pc' = "raised"
               /\ \E o \in PendingOutcomes :
                     /\ o.raised
                     /\ exc' = Some([type |-> o.value[1], origin |-> "tool"])
               /\ conversation_history' = conversation_history
               /\ prompts' = prompts
               /\ tool_log' = tool_log]_vars
    /\ [][(pc = "tool" /\ \A o \in PendingOutcomes : o.raised) => pc' = "raised"]_vars
    /\ [](ToolExceptionLeft =>
            /\ result = None
            /\ pending = None
            /\ Len(conversation_history) = 2 * Len(llm_outputs)
            /\ conversation_history[Len(conversation_history)] =
                   truncate_multiple_actions(llm_outputs[Len(llm_outputs)])
            /\ Len(prompts) = iteration + 1
            /\ Len(tool_log) >= 1
            /\ tool_log[Len(tool_log)].iteration = iteration)
    /\ [][ToolExceptionLeft =>
            \/ (pc' = "raised" /\ prompts' = prompts /\ tool_log' = tool_log)
            \/ (pc' \in {"loop", "idle"} /\ prompts' = <<>> /\ tool_log' = <<>>)]_vars

\* The second iteration's call of get_weather raised inside execute.
C23_Witness ==
    /\ ToolExceptionLeft
    /\ Val(exc).type = "AttributeError"
    /\ iteration = 1
    /\ Len(conversation_history) = 4
    /\ StartsWith(conversation_history[3], ObservationPrefix)

\* The number of calls of the run that have not come back: the model call and
\* the tool call.
InFlight == (IF pc = "generate" THEN 1 ELSE 0) + (IF IsSome(pending) THEN 1 ELSE 0)

\* C24: in one run at most one call is in flight, a model call or a tool call.
\* The calls come in the order model call, at most one tool call, next model
\* call: a model call goes out only when every earlier one has returned and
\* every tool call belongs to an earlier iteration; a tool call goes out only
\* behind the one model call of its iteration, which has returned; so there
\* are never more tool calls than model calls.
C24_OneCallAtATime ==
    /\ InFlight <= 1
    /\ IsSome(pending) <=> pc = "tool"
    /\ Len(tool_log) <= Len(llm_outputs)
    /\ Len(llm_outputs) <= Len(prompts)
    /\ Len(prompts) <= Len(llm_outputs) + 1
    /\ Len(prompts) = Len(llm_outputs) + 1
          => \/ pc = "generate"
             \/ pc = "raised" /\ Val(exc).origin = "generate"
    /\ \A k \in DOMAIN tool_log :
          /\ tool_log[k].iteration < Len(llm_outputs)
          /\ \A l \in DOMAIN tool_log : k < l => tool_log[k].iteration < tool_log[l].iteration
    /\ pc = "generate" => /\ Len(prompts) = iteration + 1
                          /\ \A k \in DOMAIN tool_log : tool_log[k].iteration < iteration
    /\ pc = "tool" => /\ Len(prompts) = iteration + 1
                      /\ Len(llm_outputs) = iteration + 1
                      /\ tool_log[Len(tool_log)].iteration = iteration

\* The third iteration's tool call is in flight; one of the two iterations
\* before it made no tool call.
C24_Witness ==
    /\ pc = "tool"
    /\ iteration = 2
    /\ Len(prompts) = 3
    /\ Len(tool_log) = 2

\* The observation texts the iteration that ends with this step can append:
\* what the registry entry in flight returns, or the undefined-tool error for
\* the action just parsed.
ObservationTexts ==
    IF pc = "tool" THEN {o.value : o \in {x \in PendingOutcomes : ~x.raised}}
    ELSE {UndefinedToolPrefix \o parse_action(Val(action_str')).tool_name \o <<"'">>}

\* C25: a step that completes an iteration and lets the loop go on (the
\* registry entry returned, or the tool was undefined) leaves exactly one
\* entry behind that iteration's model output: "Observation: " and the
\* observation text.  An iteration that ends the run with an outcome (no
\* action, finish) appends its model output and no observation.
C25_OneObservationPerContinuingIteration ==
    /\ [][iteration' = iteration + 1 =>
            /\ pc' = "loop"
            /\ Len(conversation_history') = 1 + 2 * iteration'
            /\ SubSeq(conversation_history', 1, 2 * iteration + 1)
                   = SubSeq(conversation_history, 1, 2 * iteration + 1)
            /\ conversation_history'[2 * iteration'] =
                   truncate_multiple_actions(llm_outputs'[iteration'])
            /\ StartsWith(conversation_history'[2 * iteration' + 1], LblObservation)
            /\ \E text \in ObservationTexts :
                  conversation_history'[2 * iteration' + 1] = ObservationPrefix \o text]_vars
    /\ [][(pc = "generate" /\ pc' = "done") =>
            /\ iteration' = iteration
            /\ conversation_history' =
                   Append(conversation_history,
                          truncate_multiple_actions(llm_outputs'[Len(llm_outputs')]))]_vars
    /\ [](pc = "done" /\ llm_outputs # <<>> /\ conversation_history # <<>>
            => LET n == Len(conversation_history)
               IN  IF Len(llm_outputs) > iteration
                   THEN /\ n = 2 * Len(llm_outputs)
                        /\ conversation_history[n] =
                               truncate_multiple_actions(llm_outputs[Len(llm_outputs)])
                   ELSE /\ n = 1 + 2 * iteration
                        /\ StartsWith(conversation_history[n], LblObservation))

\* Two iterations went on, one behind a tool's text and one behind an
\* undefined tool, and the third ended the run with finish.
C25_Witness ==
    /\ pc = "done"
    /\ Val(result).kind = "Finished"
    /\ iteration = 2
    /\ Len(tool_log) = 1
    /\ Len(conversation_history) = 6
    /\ StartsWith(conversation_history[3], ObservationPrefix)
    /\ StartsWith(conversation_history[5], ObservationPrefix \o UndefinedToolPrefix)

\* The action segment of a transcript entry that is a model output.
ActionOf(entry) == parse_llm_output(entry).action

\* C27: at the top of iteration k, counted from 0, the transcript has 1 + 2k
\* entries: the input entry and, for each iteration before, the model output
\* and an entry that begins with "Observation: ".  When run has returned a
\* finish answer after n model calls the transcript has 2n entries, the last
\* one the model output with the finish action, all before it as above.
C27_TranscriptShape ==
    /\ pc \in {"loop", "generate"} =>
          /\ Len(conversation_history) = 1 + 2 * iteration
          /\ Len(llm_outputs) = iteration
          /\ \A i \in 1..iteration :
                /\ conversation_history[2 * i] = truncate_multiple_actions(llm_outputs[i])
                /\ StartsWith(conversation_history[2 * i + 1], ObservationPrefix)
    /\ (pc = "done" /\ Val(result).kind = "Finished") =>
          LET n == Len(prompts)
          IN  /\ n >= 1
              /\ Len(llm_outputs) = n
              /\ Len(conversation_history) = 2 * n
              /\ conversation_history[2 * n] = truncate_multiple_actions(llm_outputs[n])
              /\ IsSome(ActionOf(conversation_history[2 * n]))
              /\ StartsWith(Val(ActionOf(conversation_history[2 * n])), FinishToken)
              /\ \A i \in 1..(n - 1) :
                    /\ conversation_history[2 * i] = truncate_multiple_actions(llm_outputs[i])
                    /\ StartsWith(conversation_history[2 * i + 1], ObservationPrefix)

\* The run returned the finish answer of its last possible model call.
C27_Witness ==
    /\ pc = "done"
    /\ Val(result).kind = "Finished"
    /\ Len(prompts) = MaxIterations
    /\ Len(conversation_history) = 2 * MaxIterations
    /\ tool_log # <<>>

\* The ValueError of parse_action or a registry entry's exception has left run.
ExceptionLeft == pc = "raised" /\ Val(exc).origin \in {"parse_action", "tool"}

\* C29: the step on which the ValueError of parse_action or a tool's exception
\* leaves run takes nothing off the transcript, and afterwards the transcript
\* holds the input entry and every entry appended in the run: each model
\* output, the last one that of the failing iteration, and one observation
\* for each iteration before it, none for the failing one.  The next call of
\* run starts from its own input entry alone, and in it the transcript, the
\* prompts and the outcome are those of a call on a fresh agent.
C29_RaisedRunKeepsTranscript ==
    /\ [][(pc # "raised" /\ pc' = "raised" /\ Val(exc').origin \in {"parse_action", "tool"})
            => IsPrefix(conversation_history, conversation_history')]_vars
    /\ [](ExceptionLeft =>
            /\ Len(llm_outputs) = iteration + 1
            /\ Len(conversation_history) = 2 * Len(llm_outputs)
            /\ conversation_history[1] = UserInputPrefix \o Val(current_input)
            /\ \A i \in DOMAIN llm_outputs :
                  conversation_history[2 * i] = truncate_multiple_actions(llm_outputs[i])
            /\ \A i \in 1..iteration :
                  StartsWith(conversation_history[2 * i + 1], ObservationPrefix))
    /\ [][(ExceptionLeft /\ pc' = "loop") =>
            /\ conversation_history' = <<UserInputPrefix \o Val(current_input')>>
            /\ previous_end' = "raised"]_vars
    /\ [](previous_end = "raised" /\ pc # "idle" =>
            /\ conversation_history[1] = UserInputPrefix \o Val(current_input)
            /\ Len(conversation_history) = 1 + Len(llm_outputs) + iteration
            /\ \A k \in DOMAIN prompts :
                  prompts[k] = Join(<<"\n">>, SubSeq(conversation_history, 1, 2 * k - 1))
            /\ pc = "done" => result = Some(FreshOutcome(llm_outputs, tools)))

\* A run that followed a raised one has itself ended with the ValueError, in
\* its second iteration.
C29_Witness ==
    /\ ExceptionLeft
    /\ Val(exc).origin = "parse_action"
    /\ previous_end = "raised"
    /\ iteration = 1
    /\ Len(conversation_history) = 4

\* The latest model output has an Action label with nothing but white space
\* behind it, and no Action label at all.
EmptyActionSegment ==
    /\ llm_outputs # <<>>
    /\ LET text == llm_outputs[Len(llm_outputs)]
           at == Find(LblAction, text, 1)
       IN  at # 0 /\ SkipSpace(text, at + Len(LblAction)) > Len(text)
NoActionSegment ==
    /\ llm_outputs # <<>>
    /\ NoActionLabel(llm_outputs[Len(llm_outputs)])

\* How a run stops for want of an action: with the outcome behind the loop, on
\* the iteration of its latest model call, with no exception, no tool call in
\* that iteration and none in flight.
StoppedWithoutAction ==
    /\ pc = "done"
    /\ result = Some(ReturnAfterLoop)
    /\ exc = None
    /\ pending = None
    /\ NoToolCallThisIteration
    /\ Len(prompts) = iteration + 1
    /\ Len(conversation_history) = 2 * Len(prompts)

\* C30: a model output whose Action label is followed by white space only
\* stops the run as an output without Action label does: on that iteration,
\* with the same outcome, nothing raised (parse_action, which raises on the
\* empty text, was not called) and no tool called; the action segment is the
\* empty text in the one case and None in the other.
C30_EmptyActionStopsLikeNoAction ==
    /\ parse_action(<<>>).raised
    /\ EmptyActionSegment => (action_str = Some(<<>>) /\ StoppedWithoutAction)
    /\ NoActionSegment => (action_str = None /\ StoppedWithoutAction)

\* The second model output of the run has the empty action.
C30_Witness ==
    /\ EmptyActionSegment
    /\ llm_outputs[Len(llm_outputs)] = OutEmptyAction
    /\ pc = "done"
    /\ iteration = 1
    /\ max_iterations = MaxIterations

\* The next label behind the first Action label of raw starts a line.
SecondPairOnNewLine(raw) ==
    StartsLine(raw, LabelAfterFirstPair(raw), FirstActionEnd(raw))

\* The action of the first pair of raw, and what raw holds behind that pair.
FirstActionText(raw) ==
    Strip(SubSeq(raw, FirstActionEnd(raw), LabelAfterFirstPair(raw) - 1))
LaterPairs(raw) == SubSeq(raw, LabelAfterFirstPair(raw), Len(raw))

\* The transcript entry of the model output of iteration i, counted from 1.
OutputEntry(i) == conversation_history[2 * i]

\* Every prompt is the join of the transcript as it was when it was sent.
PromptsAreTranscript ==
    \A k \in DOMAIN prompts :
        prompts[k] = Join(<<"\n">>, SubSeq(conversation_history, 1, 2 * k - 1))

\* The transcript entry of every model output is the truncated text, and the
\* thought and the action of the latest iteration are parsed from that entry.
TruncatedThenAppendedThenParsed ==
    /\ \A i \in DOMAIN llm_outputs : OutputEntry(i) = truncate_multiple_actions(llm_outputs[i])
    /\ llm_outputs # <<>> =>
          /\ thought = parse_llm_output(OutputEntry(Len(llm_outputs))).thought
          /\ action_str = parse_llm_output(OutputEntry(Len(llm_outputs))).action

C28_FinishPrefixIntercepted ==
    /\ (IsSome(action_str) /\ StartsWith(Val(action_str), FinishToken)) =>
          /\ pc = "done"
          /\ result = Some(Finished(SubSeq(Val(action_str), 8, Len(Val(action_str)) - 1)))
          /\ exc = None
          /\ pending = None
          /\ NoToolCallThisIteration
          /\ Len(prompts) = iteration + 1
    /\ \A k \in DOMAIN tool_log : ~StartsWith(tool_log[k].tool_name, FinishToken)

\* finish_trip(city="Oslo") ended the second iteration of a run whose registry
\* has finish_trip.
C28_Witness ==
    /\ FinishTripName \in DOMAIN tools
    /\ action_str = Some(ActFinishTrip)
    /\ IsSome(OuterMatch(ActFinishTrip))
    /\ Val(OuterMatch(ActFinishTrip)).tool_name = FinishTripName
    /\ pc = "done"
    /\ iteration = 1
    /\ Val(result).value = <<"t", "r", "i", "p", "(", "c", "i", "t", "y", "=", "\"", "O", "s", "l", "o", "\"">>

====
